---- MODULE Spec2Model ----
(***************************************************************************)
(* gemini-bridge-mcp: the gemini_execute tool-call handler of src/index.ts *)
(* (validation, buildCommand, execSync, result formatting).                *)
(*                                                                         *)
(* Text is a sequence of characters.  A run of characters that the code    *)
(* writes as one literal word and that holds no whitespace and no shell    *)
(* metacharacter ("gemini", "--approval-mode", "gemini-2.5-pro", ...) is   *)
(* kept as one element of the sequence; whitespace and the metacharacters  *)
(* backslash, double quote, dollar and backtick are always elements of     *)
(* their own.                                                              *)
(***************************************************************************)
EXTENDS Integers, Sequences, FiniteSets, TLC

VARIABLES pc, request, command, child, outcome, result

vars == <<pc, request, command, child, outcome, result>>

----------------------------------------------------------------------------
(* Characters *)

BSLASH == "\\"
DQUOTE == "\""
DOLLAR == "$"
\* The backtick cannot be written inside a TLA+ string: it is named instead.
BTICK == "BACKTICK"
SPACE == " "
NEWLINE == "\n"

Whitespace == {SPACE, NEWLINE}

ShellMeta == {BSLASH, DQUOTE, DOLLAR, BTICK}

----------------------------------------------------------------------------
(* Bounds of the model *)

MaxPromptLen == 4
MaxDirListLen == 6
MaxOutLen == 2
MaxErrLen == 2

RECURSIVE StringsOver(_, _)
StringsOver(alphabet, n) ==
    IF n = 0 THEN {<<>>}
    ELSE LET shorter == StringsOver(alphabet, n - 1)
         IN shorter \cup {Append(s, c) : s \in shorter, c \in alphabet}

----------------------------------------------------------------------------
(* String primitives of the JavaScript runtime, as the code uses them *)

\* String.prototype.replace(/c/g, rep) for a one-character pattern c.
RECURSIVE ReplaceAll(_, _, _)
ReplaceAll(s, c, rep) ==
    IF s = <<>> THEN <<>>
    ELSE (IF Head(s) = c THEN rep ELSE <<Head(s)>>) \o ReplaceAll(Tail(s), c, rep)

RECURSIVE TrimStart(_)
TrimStart(s) ==
    IF s # <<>> /\ Head(s) \in Whitespace THEN TrimStart(Tail(s)) ELSE s

RECURSIVE TrimEnd(_)
TrimEnd(s) ==
    IF s # <<>> /\ s[Len(s)] \in Whitespace
    THEN TrimEnd(SubSeq(s, 1, Len(s) - 1))
    ELSE s

\* A trim of the end only.
TrimEndOnly(s) == TrimEnd(s)

\* String.prototype.trim()
Trim(s) == TrimEnd(TrimStart(s))

\* Array.prototype.join(sep)
RECURSIVE Join(_, _)
Join(parts, sep) ==
    IF parts = <<>> THEN <<>>
    ELSE IF Len(parts) = 1 THEN parts[1]
    ELSE parts[1] \o sep \o Join(Tail(parts), sep)

\* String.prototype.includes(word); word is one element of the text.
Includes(msg, word) == \E i \in 1..Len(msg) : msg[i] = word

----------------------------------------------------------------------------
(* Optional arguments of a tool call *)

None == [some |-> FALSE, val |-> <<>>]
Some(v) == [some |-> TRUE, val |-> v]
NoFlag == [some |-> FALSE, val |-> FALSE]

----------------------------------------------------------------------------
(* sanitizeInput *)

\* The four replacements with the backslash escaped last instead of first.
SanitizeBackslashLast(input) ==
    ReplaceAll(
      ReplaceAll(
        ReplaceAll(
          ReplaceAll(input, DQUOTE, <<BSLASH, DQUOTE>>),
          DOLLAR, <<BSLASH, DOLLAR>>),
        BTICK, <<BSLASH, BTICK>>),
      BSLASH, <<BSLASH, BSLASH>>)

\* Backslash first, then double quote, dollar, backtick.
sanitizeInput(input) ==
    ReplaceAll(
      ReplaceAll(
        ReplaceAll(
          ReplaceAll(input, BSLASH, <<BSLASH, BSLASH>>),
          DQUOTE, <<BSLASH, DQUOTE>>),
        DOLLAR, <<BSLASH, DOLLAR>>),
      BTICK, <<BSLASH, BTICK>>)

----------------------------------------------------------------------------
(* The enumerated option sets and defaults *)

GeminiModel ==
    { <<"gemini-2.5-flash">>, <<"gemini-2.5-pro">>,
      <<"gemini-3-flash-preview">>, <<"gemini-3-pro-preview">> }

ApprovalMode == { <<"default">>, <<"auto_edit">>, <<"yolo">> }

OutputFormat == { <<"text">>, <<"json">> }

DefaultModel == <<"gemini-3-pro-preview">>
DefaultApprovalMode == <<"yolo">>
DefaultOutputFormat == <<"text">>

MaxDirectories == 5

----------------------------------------------------------------------------
(* buildCommand *)

buildCommand(params) ==
    LET prompt == params.prompt.val
        model == IF params.model.some THEN params.model.val ELSE DefaultModel
        approvalMode == IF params.approvalMode.some
                        THEN params.approvalMode.val ELSE DefaultApprovalMode
        outputFormat == IF params.outputFormat.some
                        THEN params.outputFormat.val ELSE DefaultOutputFormat
        sandbox == IF params.sandbox.some THEN params.sandbox.val ELSE FALSE
        includeDirectories == params.includeDirectories
        debug == IF params.debug.some THEN params.debug.val ELSE FALSE
        p1 == << <<"gemini">> >>
        p2 == Append(p1, <<"-p", SPACE, DQUOTE>> \o sanitizeInput(prompt) \o <<DQUOTE>>)
        p3 == IF model # <<>> THEN Append(p2, <<"-m", SPACE>> \o model) ELSE p2
        p4 == Append(p3, <<"--approval-mode", SPACE>> \o approvalMode)
        p5 == IF outputFormat # <<"text">>
              THEN Append(p4, <<"--output-format", SPACE>> \o outputFormat)
              ELSE p4
        p6 == IF sandbox THEN Append(p5, <<"-s">>) ELSE p5
        p7 == IF includeDirectories.some /\ Len(includeDirectories.val) > 0
              THEN LET dirs == Join([i \in 1..Len(includeDirectories.val) |->
                                       sanitizeInput(includeDirectories.val[i])],
                                    <<",">>)
                   IN Append(p6, <<"--include-directories", SPACE>> \o dirs)
              ELSE p6
        p8 == IF debug THEN Append(p7, <<"-d">>) ELSE p7
    IN Join(p8, <<SPACE>>)

----------------------------------------------------------------------------
(* The tool-call arguments the model draws from *)

ToolNames == {"gemini_execute", "other_tool"}

Args(p, m, a, o, s, w, d, g) ==
    [prompt |-> p, model |-> m, approvalMode |-> a, outputFormat |-> o,
     sandbox |-> s, workingDirectory |-> w, includeDirectories |-> d, debug |-> g]

PromptChars == {"a", SPACE, BSLASH, DQUOTE, DOLLAR, BTICK}
Prompts == StringsOver(PromptChars, MaxPromptLen)
PromptArgs == {None} \cup {Some(p) : p \in Prompts}

\* Values outside every enumerated domain: the empty string, a plain word,
\* a word with a shell metacharacter.
BogusValues == { <<>>, <<"bogus">>, <<DOLLAR, "IFS">> }
ModelArgs == {None} \cup {Some(m) : m \in GeminiModel \cup BogusValues}
ApprovalArgs == {None} \cup {Some(m) : m \in ApprovalMode \cup BogusValues}
OutputArgs == {None} \cup {Some(m) : m \in OutputFormat \cup BogusValues}
FlagArgs == {NoFlag, Some(TRUE)}

DirPaths == { <<"/a", DOLLAR, "b">>, <<"/c", SPACE, "-p", SPACE, "x">> }
DirLists == StringsOver(DirPaths, MaxDirListLen)
DirArgs == {None} \cup {Some(l) : l \in DirLists}

ExistingDir == <<"/work">>
MissingDir == <<"/missing">>
WorkDirArgs == {None, Some(ExistingDir), Some(MissingDir)}

PromptRequests ==
    {Args(p, None, None, None, NoFlag, None, None, NoFlag) : p \in PromptArgs}

OptionRequests ==
    {Args(p, m, a, o, s, None, None, g) :
        p \in {None, Some(<<"a">>)}, m \in ModelArgs, a \in ApprovalArgs,
        o \in OutputArgs, s \in FlagArgs, g \in FlagArgs}

DirRequests ==
    {Args(p, None, None, None, NoFlag, w, d, NoFlag) :
        p \in {Some(<<SPACE>>), Some(<<"a">>)}, w \in WorkDirArgs, d \in DirArgs}

MixedRequests ==
    {Args(p, m, None, o, NoFlag, None, Some(d), NoFlag) :
        p \in {None, Some(<<"a">>)}, m \in {None, Some(<<"bogus">>)},
        o \in {None, Some(<<"json">>)},
        d \in {l \in DirLists : Len(l) >= MaxDirectories}}

Requests == PromptRequests \cup OptionRequests \cup DirRequests \cup MixedRequests

DoneExample == <<SPACE, SPACE, "done", SPACE, SPACE, NEWLINE>>
Stdouts == StringsOver({"ok", SPACE, NEWLINE}, MaxOutLen) \cup {DoneExample}
PartialStdout == <<"partial">>
Stderrs == StringsOver({"oops", "auth", "command not found"}, MaxErrLen)

----------------------------------------------------------------------------
(* Results of a tool call *)

NoResult == [kind |-> "none", isError |-> FALSE, text |-> <<>>]
Thrown(message) == [kind |-> "Thrown", isError |-> TRUE, text |-> message]

NoOutputPlaceholder == <<"Done (no output)">>
InstallHint == <<"\n\nInstall Gemini CLI: npm install -g @google/gemini-cli">>
AuthHint == <<"\n\nTry: gemini auth login">>
UnknownError == <<"Unknown error">>

\* return { content: [createTextContent(result.trim() || "Done (no output)")] }
SuccessResult(stdout) ==
    [kind |-> "Success", isError |-> FALSE,
     text |-> IF Trim(stdout) # <<>> THEN Trim(stdout) ELSE NoOutputPlaceholder]

\* The fallbacks in the other order: err.message || err.stderr || "Unknown error"
DiagnosticMessageFirst(err) ==
    IF err.message # <<>> THEN err.message
    ELSE IF err.stderr # <<>> THEN err.stderr
    ELSE UnknownError

\* const msg = err.stderr || err.message || "Unknown error"
Diagnostic(err) ==
    IF err.stderr # <<>> THEN err.stderr
    ELSE IF err.message # <<>> THEN err.message
    ELSE UnknownError

HintFor(msg) ==
    IF Includes(msg, "command not found") THEN InstallHint
    ELSE IF Includes(msg, "auth") THEN AuthHint
    ELSE <<>>

\* A catch block that throws the error on instead of answering.
CatchRethrows(err) == Thrown(Diagnostic(err))

\* the catch block
CatchResult(err) ==
    [kind |-> "Failure", isError |-> TRUE,
     text |-> <<"Error: ">> \o Diagnostic(err) \o HintFor(Diagnostic(err))]

----------------------------------------------------------------------------
(* execSync: the outcome of the child process, and what the call returns or throws *)

NoOutcome == [error |-> "pending", status |-> -1, stdout |-> <<>>, stderr |-> <<>>]

Outcome(e, st, out, err) == [error |-> e, status |-> st, stdout |-> out, stderr |-> err]

Succeeded(o) == o.error = "none" /\ o.status = 0

\* The error execSync throws: the spawn-level error (ETIMEDOUT, ENOBUFS, ENOENT)
\* when there is one, else "Command failed: <command>\n<stderr>"; the captured
\* stderr is attached to it.
ExecSyncError(o, cmd) ==
    [stderr |-> o.stderr,
     message |-> IF o.error # "none"
                 THEN <<"spawnSync /bin/sh ", o.error>>
                 ELSE <<"Command failed: ">> \o cmd \o <<NEWLINE>> \o o.stderr]

\* A handler that answers with whatever output was captured, error or not.
HandlerResultSalvage(o, cmd) ==
    IF Succeeded(o) \/ o.stdout # <<>>
    THEN SuccessResult(o.stdout)
    ELSE CatchResult(ExecSyncError(o, cmd))

\* What the handler returns once execSync has returned or thrown.
HandlerResult(o, cmd) ==
    IF Succeeded(o) THEN SuccessResult(o.stdout) ELSE CatchResult(ExecSyncError(o, cmd))

----------------------------------------------------------------------------
(* The CallToolRequestSchema handler *)

PromptMissing(params) == ~params.prompt.some \/ Trim(params.prompt.val) = <<>>

\* The limit off by one.
TooManyDirectoriesOffByOne(params) ==
    params.includeDirectories.some /\ Len(params.includeDirectories.val) > MaxDirectories + 1

TooManyDirectories(params) ==
    params.includeDirectories.some /\ Len(params.includeDirectories.val) > MaxDirectories

\* The two argument checks in the other order.
ValidationErrorDirsFirst(name, params) ==
    IF name # "gemini_execute" THEN <<"Unknown tool: ", name>>
    ELSE IF TooManyDirectories(params) THEN <<"max 5 directories allowed">>
    ELSE IF PromptMissing(params) THEN <<"prompt is required">>
    ELSE <<>>

\* The validation error the handler throws for a call, or <<>> when it throws none.
ValidationError(name, params) ==
    IF name # "gemini_execute" THEN <<"Unknown tool: ", name>>
    ELSE IF PromptMissing(params) THEN <<"prompt is required">>
    ELSE IF TooManyDirectories(params) THEN <<"max 5 directories allowed">>
    ELSE <<>>

\* cwd: params.workingDirectory || process.cwd()
Cwd(params) ==
    IF params.workingDirectory.some /\ params.workingDirectory.val # <<>>
    THEN params.workingDirectory.val
    ELSE ExistingDir

NoRequest ==
    [name |-> "", arguments |-> Args(None, None, None, None, NoFlag, None, None, NoFlag)]

Init ==
    /\ pc = "idle"
    /\ request = NoRequest
    /\ command = <<>>
    /\ child = "none"
    /\ outcome = NoOutcome
    /\ result = NoResult

\* A call the handler rejects before the try block: it throws, and neither a
\* command nor a child process exists.
Reject ==
    /\ pc = "idle"
    /\ \E name \in ToolNames, params \in Requests :
          /\ ValidationError(name, params) # <<>>
          /\ request' = [name |-> name, arguments |-> params]
          /\ result' = Thrown(ValidationError(name, params))
    /\ command' = <<>>
    /\ child' = "none"
    /\ outcome' = NoOutcome
    /\ pc' = "responded"

\* A validated call whose child process cannot be spawned (a working directory
\* that does not exist, no shell): execSync throws at once and the catch block
\* answers.
SpawnFails ==
    /\ pc = "idle"
    /\ \E params \in Requests :
          /\ ValidationError("gemini_execute", params) = <<>>
          /\ request' = [name |-> "gemini_execute", arguments |-> params]
          /\ command' = buildCommand(params)
    /\ child' = "none"
    /\ outcome' = Outcome("ENOENT", -1, <<>>, <<>>)
    /\ result' = HandlerResult(outcome', command')
    /\ pc' = "responded"

\* A validated call: the command is built and the child process started; the
\* handler blocks in execSync.
Spawn ==
    /\ pc = "idle"
    /\ \E params \in Requests :
          /\ ValidationError("gemini_execute", params) = <<>>
          /\ Cwd(params) # MissingDir
          /\ request' = [name |-> "gemini_execute", arguments |-> params]
          /\ command' = buildCommand(params)
    /\ child' = "running"
    /\ outcome' = NoOutcome
    /\ result' = NoResult
    /\ pc' = "execSync"

\* The child process exits with status 0.
ChildSucceeds ==
    /\ pc = "execSync"
    /\ child = "running"
    /\ child' = "exited"
    /\ \E out \in Stdouts : outcome' = Outcome("none", 0, out, <<>>)
    /\ UNCHANGED <<pc, request, command, result>>

\* The child process exits with a non-zero status.
ChildFails ==
    /\ pc = "execSync"
    /\ child = "running"
    /\ child' = "exited"
    /\ \E err \in Stderrs : outcome' = Outcome("none", 1, <<>>, err)
    /\ UNCHANGED <<pc, request, command, result>>

\* timeout: 600000 elapses (ETIMEDOUT) or maxBuffer is exceeded (ENOBUFS):
\* execSync sends the kill signal to the child process.
Kill ==
    /\ pc = "execSync"
    /\ child = "running"
    /\ child' = "killed"
    /\ \E e \in {"ETIMEDOUT", "ENOBUFS"}, err \in Stderrs :
          outcome' = Outcome(e, -1, PartialStdout, err)
    /\ UNCHANGED <<pc, request, command, result>>

\* The killed child process terminates.
ChildDies ==
    /\ pc = "execSync"
    /\ child = "killed"
    /\ child' = "exited"
    /\ UNCHANGED <<pc, request, command, outcome, result>>

\* execSync returns or throws once the child process has exited, and the handler
\* answers.
ExecSyncReturn ==
    /\ pc = "execSync"
    /\ child = "exited"
    /\ result' = HandlerResult(outcome, command)
    /\ pc' = "responded"
    /\ UNCHANGED <<request, command, child, outcome>>

\* The result (or the thrown error) is handed to the transport.  The handler keeps
\* nothing of the call: its locals are gone and the server waits for the next one.
Respond ==
    /\ pc = "responded"
    /\ pc' = "idle"
    /\ request' = NoRequest
    /\ command' = <<>>
    /\ child' = "none"
    /\ outcome' = NoOutcome
    /\ result' = NoResult

Next ==
    \/ Reject
    \/ Spawn
    \/ SpawnFails
    \/ ChildSucceeds
    \/ ChildFails
    \/ Kill
    \/ ChildDies
    \/ ExecSyncReturn
    \/ Respond

Spec == Init /\ [][Next]_vars

----------------------------------------------------------------------------
(* How a POSIX shell reads a command line, and what the claims need of it *)

\* The characters of s that a shell would act on: every metacharacter that is
\* not escaped by a backslash, in order.  A backslash escapes the metacharacter
\* that follows it; a backslash followed by anything else stands by itself.
RECURSIVE UnescapedMeta(_)
UnescapedMeta(s) ==
    IF s = <<>> THEN <<>>
    ELSE IF Head(s) = BSLASH /\ Len(s) >= 2 /\ s[2] \in ShellMeta
         THEN UnescapedMeta(SubSeq(s, 3, Len(s)))
    ELSE IF Head(s) \in ShellMeta THEN <<Head(s)>> \o UnescapedMeta(Tail(s))
    ELSE UnescapedMeta(Tail(s))

\* The words of a command line: split at unquoted whitespace, double quotes
\* removed, backslash escapes resolved.  cur is the word being read and open
\* says whether one is being read; acc holds the finished words.
RECURSIVE Lex(_, _, _, _, _, _)
Lex(s, i, inq, cur, open, acc) ==
    IF i > Len(s) THEN (IF open THEN Append(acc, cur) ELSE acc)
    ELSE IF s[i] = BSLASH /\ i < Len(s) /\ (~inq \/ s[i + 1] \in ShellMeta)
         THEN Lex(s, i + 2, inq, Append(cur, s[i + 1]), TRUE, acc)
    ELSE IF s[i] = DQUOTE THEN Lex(s, i + 1, ~inq, cur, TRUE, acc)
    ELSE IF ~inq /\ s[i] \in Whitespace
         THEN Lex(s, i + 1, inq, <<>>, FALSE, IF open THEN Append(acc, cur) ELSE acc)
    ELSE Lex(s, i + 1, inq, Append(cur, s[i]), TRUE, acc)

ShellTokens(s) == Lex(s, 1, FALSE, <<>>, FALSE, <<>>)

\* The flags of the gemini command line that take a value.
ValueFlags == {"-p", "-m", "--approval-mode", "--output-format", "--include-directories"}

IsValueFlag(tok) == Len(tok) = 1 /\ tok[1] \in ValueFlags

\* How many times flag stands in flag position among the words toks, from word
\* i on: the word after a flag that takes a value is that flag's value.
RECURSIVE FlagCount(_, _, _)
FlagCount(toks, i, flag) ==
    IF i > Len(toks) THEN 0
    ELSE (IF toks[i] = <<flag>> THEN 1 ELSE 0)
         + FlagCount(toks, IF IsValueFlag(toks[i]) THEN i + 2 ELSE i + 1, flag)

\* The text between the double quote that opens the prompt and the first
\* unescaped double quote after it.
RECURSIVE ClosingQuote(_, _)
ClosingQuote(s, i) ==
    IF i > Len(s) THEN i
    ELSE IF s[i] = BSLASH THEN ClosingQuote(s, i + 2)
    ELSE IF s[i] = DQUOTE THEN i
    ELSE ClosingQuote(s, i + 1)

OpeningQuote(s) == CHOOSE i \in 1..Len(s) : s[i] = DQUOTE /\ \A j \in 1..(i - 1) : s[j] # DQUOTE

PromptSegment(cmd) ==
    SubSeq(cmd, OpeningQuote(cmd) + 1, ClosingQuote(cmd, OpeningQuote(cmd) + 1) - 1)

\* Every occurrence of the two characters a b, left to right, replaced by rep.
RECURSIVE ReplacePair(_, _, _, _)
ReplacePair(s, a, b, rep) ==
    IF Len(s) < 2 THEN s
    ELSE IF s[1] = a /\ s[2] = b
         THEN rep \o ReplacePair(SubSeq(s, 3, Len(s)), a, b, rep)
    ELSE <<s[1]>> \o ReplacePair(Tail(s), a, b, rep)

\* The inverse of the sanitizer: its four steps undone, the last one first.
Unsanitize(s) ==
    ReplacePair(
      ReplacePair(
        ReplacePair(
          ReplacePair(s, BSLASH, BTICK, <<BTICK>>),
          BSLASH, DOLLAR, <<DOLLAR>>),
        BSLASH, DQUOTE, <<DQUOTE>>),
      BSLASH, BSLASH, <<BSLASH>>)

\* A text that is empty or whitespace only.
IsBlank(text) == \A i \in 1..Len(text) : text[i] \in Whitespace

InDomain(arg, domain) == ~arg.some \/ arg.val \in domain

\* Every enumerated field of the arguments is absent or in its domain.
EnumsInDomain(params) ==
    /\ InDomain(params.model, GeminiModel)
    /\ InDomain(params.approvalMode, ApprovalMode)
    /\ InDomain(params.outputFormat, OutputFormat)

DirCount(params) ==
    IF params.includeDirectories.some THEN Len(params.includeDirectories.val) ELSE 0

\* A valid ExecuteRequest.
ValidRequest(params) ==
    /\ params.prompt.some /\ ~IsBlank(params.prompt.val)
    /\ EnumsInDomain(params)
    /\ DirCount(params) <= MaxDirectories

IsCall == request.name = "gemini_execute"
Built == command # <<>>

----------------------------------------------------------------------------
(* The claims *)

\* C1: in every rendered command line no caller-supplied text stands
\* unsanitized, whatever the arguments: the only metacharacters a shell would
\* act on are the two double quotes that wrap the prompt.
C1_NoUnsanitizedText ==
    Built => UnescapedMeta(command) = <<DQUOTE, DQUOTE>>

\* C2: the prompt segment of the rendered command, unescaped by the inverse of
\* the sanitizer, is the original prompt.
C2_PromptRoundTrip ==
    Built => Unsanitize(PromptSegment(command)) = request.arguments.prompt.val

C2_Witness ==
    /\ Built
    /\ \A c \in ShellMeta : Includes(request.arguments.prompt.val, c)
    /\ Unsanitize(PromptSegment(command)) = request.arguments.prompt.val

\* C3: for a valid request the rendered command line starts with the word
\* gemini and, read as shell words, holds exactly one -p flag and exactly one
\* --approval-mode flag.
C3_OnePromptOneApprovalFlag ==
    (Built /\ ValidRequest(request.arguments)) =>
        LET toks == ShellTokens(command)
        IN /\ toks[1] = <<"gemini">>
           /\ FlagCount(toks, 2, "-p") = 1
           /\ FlagCount(toks, 2, "--approval-mode") = 1

\* C4: a call with an enumerated field outside its domain is rejected as a
\* validation failure: no command is built and no child process is spawned.
C4_OutOfDomainRejected ==
    (IsCall /\ ~EnumsInDomain(request.arguments)) =>
        /\ command = <<>>
        /\ child = "none"
        /\ pc = "responded" => result.kind = "Thrown"

C6_TooManyDirectoriesRejected ==
    /\ (IsCall /\ DirCount(request.arguments) >= 6) =>
          /\ pc = "responded"
          /\ result.kind = "Thrown"
          /\ (request.arguments.prompt.some /\ ~IsBlank(request.arguments.prompt.val))
                => result = Thrown(<<"max 5 directories allowed">>)
    /\ (Built \/ child # "none") => DirCount(request.arguments) <= 5

C6_Witness ==
    /\ IsCall
    /\ DirCount(request.arguments) = 6
    /\ EnumsInDomain(request.arguments)
    /\ result = Thrown(<<"max 5 directories allowed">>)
    /\ command = <<>>

\* An abnormal outcome of the child process of a validated call.
Abnormal == Built /\ outcome.error # "pending" /\ ~(outcome.error = "none" /\ outcome.status = 0)

\* C7: every abnormal outcome of the child process (non-zero exit, timeout,
\* buffer overflow, spawn failure) is answered with an error-flagged Failure
\* result and never thrown; once a call is answered the server takes the next
\* one, and nothing of the earlier calls is left to influence it.
C7_FailureNeverThrown ==
    /\ (pc = "responded" /\ Abnormal) => (result.kind = "Failure" /\ result.isError)
    /\ pc = "responded" => ENABLED Respond
    /\ pc = "idle" =>
          /\ <<request, command, child, outcome, result>>
                = <<NoRequest, <<>>, "none", NoOutcome, NoResult>>
          /\ ENABLED Spawn

C7_Witness ==
    /\ pc = "responded"
    /\ request.arguments.workingDirectory = Some(MissingDir)
    /\ outcome.error = "ENOENT"
    /\ result.kind = "Failure"

\* C8: a call whose child process ran past the timeout is answered with a
\* Failure result, never a Success carrying the partial output, and no child
\* process is still running once a call has been answered.
C8_TimeoutFailsAndChildGone ==
    /\ (pc = "responded" /\ outcome.error = "ETIMEDOUT") =>
          /\ result.kind = "Failure"
          /\ result.isError
          /\ ~Includes(result.text, PartialStdout[1])
    /\ pc # "execSync" => child \in {"none", "exited"}

C8_Witness ==
    /\ pc = "responded"
    /\ outcome.error = "ETIMEDOUT"
    /\ outcome.stdout = PartialStdout
    /\ child = "exited"
    /\ result.kind = "Failure"

\* The diagnostic message of a failure, as the claim states it: the captured
\* standard error when not empty, else the process-level error description.
ClaimedMessage ==
    IF outcome.stderr # <<>> THEN outcome.stderr
    ELSE ExecSyncError(outcome, command).message

\* C9 as stated: the failure text is the message followed by the hint, the hint
\* being the install hint when the message contains "command not found", the
\* re-authenticate hint when it contains "auth", and none otherwise.
C9_HintAsStated ==
    (pc = "responded" /\ Abnormal) =>
        \E hint \in {<<>>, InstallHint, AuthHint} :
            /\ result.text = <<"Error: ">> \o ClaimedMessage \o hint
            /\ Includes(ClaimedMessage, "command not found") => hint = InstallHint
            /\ Includes(ClaimedMessage, "auth") => hint = AuthHint
            /\ (~Includes(ClaimedMessage, "command not found")
                  /\ ~Includes(ClaimedMessage, "auth")) => hint = <<>>

\* C9, amended: the re-authenticate hint is attached when the message contains
\* "auth" and does not contain "command not found"; a message that contains
\* both carries the install hint only.
C9_HintByMessage ==
    (pc = "responded" /\ Abnormal) =>
        \E hint \in {<<>>, InstallHint, AuthHint} :
            /\ result.text = <<"Error: ">> \o ClaimedMessage \o hint
            /\ Includes(ClaimedMessage, "command not found") => hint = InstallHint
            /\ (Includes(ClaimedMessage, "auth")
                  /\ ~Includes(ClaimedMessage, "command not found")) => hint = AuthHint
            /\ (~Includes(ClaimedMessage, "command not found")
                  /\ ~Includes(ClaimedMessage, "auth")) => hint = <<>>

C9_Witness ==
    /\ pc = "responded"
    /\ Abnormal
    /\ outcome.stderr = <<"command not found", "auth">>
    /\ result.text = <<"Error: ">> \o outcome.stderr \o InstallHint

\* t is s without its leading and trailing whitespace.
IsTrimOf(t, s) ==
    \E a \in 0..Len(s), b \in 0..Len(s) :
        /\ a + b <= Len(s)
        /\ IsBlank(SubSeq(s, 1, a))
        /\ IsBlank(SubSeq(s, Len(s) - b + 1, Len(s)))
        /\ t = SubSeq(s, a + 1, Len(s) - b)
        /\ t # <<>> => (t[1] \notin Whitespace /\ t[Len(t)] \notin Whitespace)

\* C10: when the child process exits 0 the result is a Success, not
\* error-flagged, whose text is the captured standard output without its
\* surrounding whitespace ("  done  \n" gives "done"), or the no-output
\* placeholder when that is empty; the text is never empty.
C10_SuccessTextTrimmed ==
    (pc = "responded" /\ Built /\ outcome.error = "none" /\ outcome.status = 0) =>
        /\ result.kind = "Success"
        /\ ~result.isError
        /\ result.text # <<>>
        /\ IF IsBlank(outcome.stdout)
           THEN result.text = NoOutputPlaceholder
           ELSE IsTrimOf(result.text, outcome.stdout)
        /\ outcome.stdout = DoneExample => result.text = <<"done">>

C10_Witness ==
    /\ pc = "responded"
    /\ outcome.status = 0
    /\ outcome.stdout = DoneExample
    /\ result = [kind |-> "Success", isError |-> FALSE, text |-> <<"done">>]

====
